---- MODULE Spec2Model ----
(***************************************************************************)
(* Code Amplifier: the analysis batch of App.tsx (validateCode and its     *)
(* processFile requests), the parsing of a model response (processFile and *)
(* processAnalysisResult of ValidationResults), the Judge0 execution       *)
(* poller (runCode / checkResult) and the file list of FileUploader.       *)
(*                                                                         *)
(* Texts are TLA+ strings handled character by character with Len, SubSeq  *)
(* and \o.  A TLA+ string cannot hold a backtick, so the backtick of the   *)
(* source is written ^ throughout: the fence ``` of the source is "^^^".   *)
(***************************************************************************)
EXTENDS Integers, Sequences, FiniteSets, TLC

\* ------------------------------------------------------------------------
\* String primitives of JavaScript used by the source
\* ------------------------------------------------------------------------

\* String.prototype.charAt, 1-based: "" outside the string
At(s, i) == IF i >= 1 /\ i <= Len(s) THEN SubSeq(s, i, i) ELSE ""

From(s, i) == SubSeq(s, i, Len(s))

IsDigit(c) == c \in {"0", "1", "2", "3", "4", "5", "6", "7", "8", "9"}

Uppers == "ABCDEFGHIJKLMNOPQRSTUVWXYZ"

Lowers == "abcdefghijklmnopqrstuvwxyz"

LetterIndex(alphabet, c) ==
  IF \E i \in 1..Len(alphabet) : At(alphabet, i) = c
    THEN CHOOSE i \in 1..Len(alphabet) : At(alphabet, i) = c
    ELSE 0

\* \w of a JavaScript regular expression: [A-Za-z0-9_]
IsWord(c) ==
  \/ IsDigit(c)
  \/ c = "_"
  \/ LetterIndex(Uppers, c) # 0
  \/ LetterIndex(Lowers, c) # 0

\* white space as String.prototype.trim and \s see it
IsSpace(c) == c \in {" ", "\n", "\t", "\r"}

StartsAt(s, i, pat) ==
  /\ i >= 1
  /\ i + Len(pat) - 1 <= Len(s)
  /\ SubSeq(s, i, i + Len(pat) - 1) = pat

\* the least member of a non-empty set of indices
Least(indices) == CHOOSE i \in indices : \A j \in indices : i <= j

\* String.prototype.indexOf(pat, from), 1-based; 0 when pat does not occur
IndexFrom(s, pat, i) ==
  LET hits == { j \in i..(Len(s) - Len(pat) + 1) : StartsAt(s, j, pat) }
  IN  IF hits = {} THEN 0 ELSE Least(hits)

includes(s, pat) == IndexFrom(s, pat, 1) # 0

\* String.prototype.toLowerCase (by halves, to keep the recursion shallow)
RECURSIVE toLowerCase(_)
toLowerCase(s) ==
  IF Len(s) = 0 THEN ""
  ELSE IF Len(s) = 1
    THEN LET u == LetterIndex(Uppers, s) IN IF u # 0 THEN At(Lowers, u) ELSE s
  ELSE LET half == Len(s) \div 2
       IN  toLowerCase(SubSeq(s, 1, half)) \o toLowerCase(From(s, half + 1))

RECURSIVE TrimStart(_)
TrimStart(s) ==
  IF s # "" /\ IsSpace(At(s, 1)) THEN TrimStart(From(s, 2)) ELSE s

RECURSIVE TrimEnd(_)
TrimEnd(s) ==
  IF s # "" /\ IsSpace(At(s, Len(s))) THEN TrimEnd(SubSeq(s, 1, Len(s) - 1)) ELSE s

trim(s) == TrimEnd(TrimStart(s))

\* String.prototype.split('\n'): always at least one piece
RECURSIVE split(_)
split(s) ==
  LET nl == IndexFrom(s, "\n", 1)
  IN  IF nl = 0 THEN <<s>>
      ELSE <<SubSeq(s, 1, nl - 1)>> \o split(From(s, nl + 1))

\* last index of the maximal run of characters satisfying P that starts at
\* i (i - 1 when the run is empty)
RECURSIVE DigitRunEnd(_, _)
DigitRunEnd(s, i) ==
  IF i <= Len(s) /\ IsDigit(At(s, i)) THEN DigitRunEnd(s, i + 1) ELSE i - 1

RECURSIVE WordRunEnd(_, _)
WordRunEnd(s, i) ==
  IF i <= Len(s) /\ IsWord(At(s, i)) THEN WordRunEnd(s, i + 1) ELSE i - 1

DigitValue(c) == CHOOSE d \in 0..9 : At("0123456789", d + 1) = c

\* parseInt of a string of decimal digits
RECURSIVE parseInt(_)
parseInt(d) ==
  IF d = "" THEN 0
  ELSE 10 * parseInt(SubSeq(d, 1, Len(d) - 1)) + DigitValue(At(d, Len(d)))

Min(a, b) == IF a < b THEN a ELSE b

Max(a, b) == IF a > b THEN a ELSE b

\* an optional value (undefined of JavaScript): <<>> or <<v>>
None == <<>>

Some(v) == <<v>>

\* ------------------------------------------------------------------------
\* The regular expressions of processFile and processAnalysisResult
\* ------------------------------------------------------------------------

ScoreOpen == "<SCORE:"

\* /<SCORE:(\d+)>/ anchored at i: the index of the closing > or 0
ScoreMatchEnd(s, i) ==
  IF ~StartsAt(s, i, ScoreOpen) THEN 0
  ELSE LET d == i + Len(ScoreOpen)
           e == DigitRunEnd(s, d)
       IN  IF e >= d /\ At(s, e + 1) = ">" THEN e + 1 ELSE 0

\* the first match of /<SCORE:(\d+)>/ at or after i, or 0
ScoreMatchFrom(s, i) ==
  LET hits == { j \in i..Len(s) : ScoreMatchEnd(s, j) # 0 }
  IN  IF hits = {} THEN 0 ELSE Least(hits)

\* aiResponse.match(/<SCORE:(\d+)>/)?.[1]
scoreMatch(s) ==
  LET i == ScoreMatchFrom(s, 1)
  IN  IF i = 0 THEN None
      ELSE Some(SubSeq(s, i + Len(ScoreOpen), ScoreMatchEnd(s, i) - 1))

Fence == "^^^"

\* /```(?:\w+\n)?([\s\S]*?)```/ anchored at i: <<first index of the group,
\* index of the closing fence>> or <<>>
CodeMatchAt(s, i) ==
  IF ~StartsAt(s, i, Fence) THEN <<>>
  ELSE LET open == i + Len(Fence)
           w == WordRunEnd(s, open)
           tagged == w >= open /\ At(s, w + 1) = "\n"
           closeTagged == IF tagged THEN IndexFrom(s, Fence, w + 2) ELSE 0
           closePlain == IndexFrom(s, Fence, open)
       IN  IF closeTagged # 0 THEN <<w + 2, closeTagged>>
           ELSE IF closePlain # 0 THEN <<open, closePlain>>
           ELSE <<>>

\* the first match of the fence pattern at or after i, or 0
CodeMatchFrom(s, i) ==
  LET hits == { j \in i..Len(s) : CodeMatchAt(s, j) # <<>> }
  IN  IF hits = {} THEN 0 ELSE Least(hits)

\* aiResponse.match(/```(?:\w+\n)?([\s\S]*?)```/)?.[1]
correctedCodeMatch(s) ==
  LET i == CodeMatchFrom(s, 1)
  IN  IF i = 0 THEN None
      ELSE LET m == CodeMatchAt(s, i) IN Some(SubSeq(s, m[1], m[2] - 1))

\* aiResponse.replace(/```[\s\S]*?```/, "")
RemoveFirstFence(s) ==
  LET i == IndexFrom(s, Fence, 1)
      j == IF i = 0 THEN 0 ELSE IndexFrom(s, Fence, i + Len(Fence))
  IN  IF j = 0 THEN s
      ELSE SubSeq(s, 1, i - 1) \o From(s, j + Len(Fence))

\* result.replace(/<SCORE:\d+>/g, ""), scanning from i
RECURSIVE RemoveScoreTags(_, _)
RemoveScoreTags(s, i) ==
  LET m == ScoreMatchFrom(s, i)
  IN  IF m = 0 THEN From(s, i)
      ELSE SubSeq(s, i, m - 1) \o RemoveScoreTags(s, ScoreMatchEnd(s, m) + 1)

ThinkOpen == "<think>"

ThinkClose == "</think>"

\* /<think>[\s\S]*?<\/think>/ : index of the first <think> at or after i
\* that has a </think> after it, or 0
ThinkMatchFrom(s, i) ==
  LET o == IndexFrom(s, ThinkOpen, i)
  IN  IF o # 0 /\ IndexFrom(s, ThinkClose, o + Len(ThinkOpen)) # 0 THEN o ELSE 0

\* .replace(/<think>[\s\S]*?<\/think>/g, ""), scanning from i
RECURSIVE RemoveThinkBlocks(_, _)
RemoveThinkBlocks(s, i) ==
  LET o == ThinkMatchFrom(s, i)
      c == IndexFrom(s, ThinkClose, o + Len(ThinkOpen))
  IN  IF o = 0 THEN From(s, i)
      ELSE SubSeq(s, i, o - 1) \o RemoveThinkBlocks(s, c + Len(ThinkClose))

\* ------------------------------------------------------------------------
\* Parsing of one model response
\* ------------------------------------------------------------------------

NoResponse == "No response received."

\* ScoreOf without the clamp to [0, 100]
ScoreOfUnclamped(aiResponse) ==
  LET m == scoreMatch(aiResponse)
  IN  parseInt(IF m # None /\ m[1] # "" THEN m[1] ELSE "0")

\* lines 85-86: Math.min(Math.max(parseInt(scoreMatch?.[1] || "0"), 0), 100)
ScoreOf(aiResponse) ==
  LET m == scoreMatch(aiResponse)
      digits == IF m # None /\ m[1] # "" THEN m[1] ELSE "0"
  IN  Min(Max(parseInt(digits), 0), 100)

\* CorrectedCodeOf without the trim
CorrectedCodeOfUntrimmed(aiResponse) == correctedCodeMatch(aiResponse)

\* lines 88-89: the trimmed first group of the fence pattern, or undefined
CorrectedCodeOf(aiResponse) ==
  LET m == correctedCodeMatch(aiResponse)
  IN  IF m # None THEN Some(trim(m[1])) ELSE None

\* !!correctedCode: undefined and "" are falsy
Truthy(opt) == opt # None /\ opt[1] # ""

\* lines 91-99: the ValidationResult of a response that was read
ParseResponse(file, aiResponse) ==
  [fileName |-> file.name,
   path |-> file.path,
   code |-> file.content,
   result |-> trim(RemoveFirstFence(aiResponse)),
   score |-> ScoreOf(aiResponse),
   correctedCode |-> CorrectedCodeOf(aiResponse),
   hasCorrections |-> Truthy(CorrectedCodeOf(aiResponse))]

\* lines 104-114: the ValidationResult the catch block appends
ErrorOutcome(file, message) ==
  [fileName |-> file.name,
   path |-> file.path,
   code |-> file.content,
   result |-> "Error: " \o message,
   score |-> 0,
   correctedCode |-> None,
   hasCorrections |-> FALSE]

SectionNames == {"analysis", "suggestions", "security", "performance"}

EmptySections ==
  [analysis |-> <<>>, suggestions |-> <<>>, security |-> <<>>, performance |-> <<>>]

\* NextSection without stickiness: a line with no trigger goes back to analysis
NextSectionReset(currentSection, line) ==
  LET lowerLine == toLowerCase(line)
  IN  IF includes(lowerLine, "security") \/ includes(lowerLine, "vulnerability")
        THEN "security"
      ELSE IF includes(lowerLine, "performance") \/ includes(lowerLine, "optimization")
        THEN "performance"
      ELSE IF includes(lowerLine, "suggestion") \/ includes(lowerLine, "recommendation")
        THEN "suggestions"
      ELSE "analysis"

\* NextSection with the performance test made before the security test
NextSectionPerformanceFirst(currentSection, line) ==
  LET lowerLine == toLowerCase(line)
  IN  IF includes(lowerLine, "performance") \/ includes(lowerLine, "optimization")
        THEN "performance"
      ELSE IF includes(lowerLine, "security") \/ includes(lowerLine, "vulnerability")
        THEN "security"
      ELSE IF includes(lowerLine, "suggestion") \/ includes(lowerLine, "recommendation")
        THEN "suggestions"
      ELSE currentSection

\* lines 68-75 of ValidationResults: the cursor after looking at one line
NextSection(currentSection, line) ==
  LET lowerLine == toLowerCase(line)
  IN  IF includes(lowerLine, "security") \/ includes(lowerLine, "vulnerability")
        THEN "security"
      ELSE IF includes(lowerLine, "performance") \/ includes(lowerLine, "optimization")
        THEN "performance"
      ELSE IF includes(lowerLine, "suggestion") \/ includes(lowerLine, "recommendation")
        THEN "suggestions"
      ELSE currentSection

\* lines 67-80: lines.forEach from line k on
RECURSIVE ClassifyLines(_, _, _, _)
ClassifyLines(lines, k, currentSection, sections) ==
  IF k > Len(lines) THEN sections
  ELSE LET section == NextSection(currentSection, lines[k])
           filed == IF trim(lines[k]) # ""
                      THEN [sections EXCEPT ![section] = Append(@, trim(lines[k]))]
                      ELSE sections
       IN  ClassifyLines(lines, k + 1, section, filed)

\* lines 51-54: the text without score tags and think blocks
CleanedResult(result) ==
  trim(RemoveThinkBlocks(RemoveScoreTags(result, 1), 1))

\* lines 49-83
processAnalysisResult(result) ==
  ClassifyLines(split(CleanedResult(result)), 1, "analysis", EmptySections)

\* ------------------------------------------------------------------------
\* State
\* ------------------------------------------------------------------------

VARIABLES
  files,              \* App: useState files (FileWithContent[])
  validationResults,  \* App: useState validationResults
  streamingState,     \* App: useState streamingState
  reading,            \* handleFilesSelected calls awaiting file.text()
  validatePc,         \* the latest validateCode call: "await" at the
                      \* Promise.all, "empty" returned at line 50, "idle"
                      \* returned after line 119 (or never called)
  requests,           \* the processFile calls of the batch, in input order
  executionOutput,    \* App: useState executionOutput
  execs,              \* the runCode calls, in call order, each with the
                      \* answers Judge0 has given it so far and the text
                      \* it has put in the output slot after "Running..."
  delivered,          \* the last Judge0 poll response handed to checkResult
  uploadedFiles       \* FileUploader: useState uploadedFiles (the File of
                      \* each entry; path and size are read from it)

batchVars == <<files, validationResults, streamingState, reading, validatePc, requests>>

execVars == <<executionOutput, execs, delivered>>

uploaderVars == <<uploadedFiles>>

vars == <<files, validationResults, streamingState, reading, validatePc, requests,
          executionOutput, execs, delivered, uploadedFiles>>

\* ------------------------------------------------------------------------
\* Inputs
\* ------------------------------------------------------------------------

MaxReading == 1

\* the File objects the uploader hands over: one with a path, one without
FileA == [name |-> "a.js", path |-> "src/a.js", text |-> "let a"]

FileB == [name |-> "b.py", path |-> "", text |-> "b = 1"]

\* the lists handleFilesSelected is called with
Selections == { <<>>, <<FileA>>, <<FileA, FileB>>, <<FileB, FileB>> }

HttpStatuses == {200, 500}

NetworkErrorMessage == "Failed to fetch"

JsonErrorMessage == "Unexpected token < in JSON at position 0"

TypeErrorMessage == "aiResponse.match is not a function"

\* data?.choices?.[0]?.message?.content of a JSON body
Undefined == [type |-> "undefined", value |-> ""]

NumberContent == [type |-> "number", value |-> "42"]

StringContent(s) == [type |-> "string", value |-> s]

\* the responses of the language model seen by a batch of several files
BatchTexts ==
  { "Looks fine <SCORE:85>",
    "<SCORE:150>\n^^^js\nlet a = 1;\n^^^\nSecurity issue found" }

BatchContents == {Undefined, NumberContent} \cup { StringContent(s) : s \in BatchTexts }

\* the responses the parser is checked on: a score part, a code part and a
\* narrative part, each in the variants the patterns tell apart
ScoreParts ==
  { "", "<SCORE:85>", "<SCORE:150>", "<SCORE:-5>", "<SCORE:0>", "<SCORE:>",
    "<SCORE:-5> then <SCORE:07>", "Score: 90 " }

CodeParts ==
  { "", "^^^js\nlet a = 1;\n^^^", "^^^let a^^^", "^^^c++\nint a;^^^", "^^^^^^",
    "^^^py\n  \n^^^", "^^^js\nfirst^^^ and ^^^second^^^", "^^^unclosed" }

NarrativeParts ==
  { "", "intro\nSecurity issue found\nstill here\nSuggest refactor",
    "<think>internal notes</think>Visible text",
    "plain text\n\n  more text ",
    "Looks fine\nPerformance and security\nSuggestion: use const\nso it is\nRecommendation of optimization",
    "\n<think>multi\nline</think>\nA VULNERABILITY here\n </think>",
    "<think>draft ^^^js</think>Use this:\n^^^js\nlet a = 1;\n^^^\nDone",
    "Optimization Suggestion\n \nRECOMMENDATION on Security\n\t\nlast line" }

ParserTexts ==
  { s \o c \o n : s \in ScoreParts, c \in CodeParts, n \in NarrativeParts }

ParserContents == {Undefined, NumberContent} \cup { StringContent(s) : s \in ParserTexts }

\* ------------------------------------------------------------------------
\* App: file selection and the analysis batch
\* ------------------------------------------------------------------------

\* file.name.split(".").pop() || ""
RECURSIVE Extension(_)
Extension(name) ==
  LET dot == IndexFrom(name, ".", 1)
  IN  IF dot = 0 THEN name ELSE Extension(From(name, dot + 1))

\* lines 36-41: (file as any).path || file.webkitRelativePath || file.name
FileWithContent(file) ==
  [name |-> file.name,
   path |-> IF file.path # "" THEN file.path ELSE file.name,
   content |-> file.text,
   extension |-> Extension(file.name)]

\* lines 34-42: handleFilesSelected up to its await, as the onFilesSelected
\* prop of FileUploader (the caller says what becomes of uploadedFiles)
OnFilesSelected(selectedFiles) ==
  /\ Len(reading) < MaxReading
  /\ reading' = Append(reading, selectedFiles)
  /\ UNCHANGED <<files, validationResults, streamingState, validatePc, requests>>
  /\ UNCHANGED execVars

\* lines 34-42: a call of handleFilesSelected, whatever the uploader's list
HandleFilesSelected(selectedFiles) ==
  /\ OnFilesSelected(selectedFiles)
  /\ UNCHANGED uploaderVars

\* lines 44-45: the texts of call k have been read
FilesRead(k) ==
  /\ k \in DOMAIN reading
  /\ files' = [i \in DOMAIN reading[k] |-> FileWithContent(reading[k][i])]
  /\ validationResults' = <<>>
  /\ reading' = [i \in 1..(Len(reading) - 1) |-> IF i < k THEN reading[i] ELSE reading[i + 1]]
  /\ UNCHANGED <<streamingState, validatePc, requests>>
  /\ UNCHANGED execVars
  /\ UNCHANGED uploaderVars

NewRequest(file) ==
  [file |-> file, pc |-> "fetch", status |-> 0, content |-> Undefined,
   aiResponse |-> "", branch |-> ""]

\* Dispatched with the cursor kept on the first file dispatched
DispatchedFirstWins(state, batch, k) ==
  IF k > Len(batch) THEN state
  ELSE [state EXCEPT !.currentFile = batch[k].path,
                     !.currentStep = "Analyzing code..."]

\* line 56, once per file in input order: the functional updates of processFile
RECURSIVE Dispatched(_, _, _)
Dispatched(state, batch, k) ==
  IF k > Len(batch) THEN state
  ELSE Dispatched([state EXCEPT !.currentFile = batch[k].path,
                                !.currentStep = "Analyzing code..."], batch, k + 1)

\* ValidateCode with the button left enabled during a batch
ValidateCodeWhileAnalyzing ==
  /\ IF Len(files) = 0
       THEN /\ validatePc' = "empty"
            /\ UNCHANGED <<streamingState, validationResults, requests>>
       ELSE /\ streamingState' =
                 Dispatched([isAnalyzing |-> TRUE, currentFile |-> "",
                             currentStep |-> "Initializing..."], files, 1)
            /\ validationResults' = <<>>
            /\ requests' = [i \in DOMAIN files |-> NewRequest(files[i])]
            /\ validatePc' = "await"
  /\ UNCHANGED <<files, reading>>
  /\ UNCHANGED execVars
  /\ UNCHANGED uploaderVars

\* lines 49-59 and 118: the click on Validate Code (enabled while not
\* analyzing, lines 193-195) up to the return of line 50 or the await of
\* Promise.all
ValidateCode ==
  /\ ~streamingState.isAnalyzing
  /\ IF Len(files) = 0
       THEN /\ validatePc' = "empty"
            /\ UNCHANGED <<streamingState, validationResults, requests>>
       ELSE /\ streamingState' =
                 Dispatched([isAnalyzing |-> TRUE, currentFile |-> "",
                             currentStep |-> "Initializing..."], files, 1)
            /\ validationResults' = <<>>
            /\ requests' = [i \in DOMAIN files |-> NewRequest(files[i])]
            /\ validatePc' = "await"
  /\ UNCHANGED <<files, reading>>
  /\ UNCHANGED execVars
  /\ UNCHANGED uploaderVars

\* Settle with the collection written from the value validateCode saw when
\* it cleared it, not from the previous value
SettleOverwriting(i, settled, outcome) ==
  /\ requests' = [requests EXCEPT ![i] = settled]
  /\ validationResults' = <<outcome>>
  /\ UNCHANGED <<files, streamingState, reading, validatePc>>
  /\ UNCHANGED execVars
  /\ UNCHANGED uploaderVars

\* a processFile call ends: its outcome is appended (lines 101 and 104-114)
Settle(i, settled, outcome) ==
  /\ requests' = [requests EXCEPT ![i] = settled]
  /\ validationResults' = Append(validationResults, outcome)
  /\ UNCHANGED <<files, streamingState, reading, validatePc>>
  /\ UNCHANGED execVars
  /\ UNCHANGED uploaderVars

\* Catch as a first-failure-aborts join would have it: the siblings of the
\* failing request are ended
CatchAbortingSiblings(i, seen, message) ==
  /\ requests' = [j \in DOMAIN requests |->
                    IF j = i THEN [seen EXCEPT !.pc = "done", !.branch = "catch"]
                    ELSE [requests[j] EXCEPT !.pc = "done"]]
  /\ validationResults' = Append(validationResults, ErrorOutcome(requests[i].file, message))
  /\ UNCHANGED <<files, streamingState, reading, validatePc>>
  /\ UNCHANGED execVars
  /\ UNCHANGED uploaderVars

\* lines 102-115: the catch block
Catch(i, seen, message) ==
  Settle(i, [seen EXCEPT !.pc = "done", !.branch = "catch"],
         ErrorOutcome(requests[i].file, message))

\* line 59: fetch rejects (the server cannot be reached)
FetchRejects(i) ==
  /\ i \in DOMAIN requests
  /\ requests[i].pc = "fetch"
  /\ Catch(i, requests[i], NetworkErrorMessage)

\* String(n) of a non-negative integer
RECURSIVE NumberToString(_)
NumberToString(n) ==
  IF n < 10 THEN At("0123456789", n + 1)
  ELSE NumberToString(n \div 10) \o At("0123456789", (n % 10) + 1)

\* line 80: `Server error: ${response.status}`
ServerErrorMessage(status) == "Server error: " \o NumberToString(status)

\* lines 59-82: fetch resolves with a status; line 80 throws unless ok
FetchResolves(i, status) ==
  /\ i \in DOMAIN requests
  /\ requests[i].pc = "fetch"
  /\ IF status >= 200 /\ status <= 299
       THEN /\ requests' = [requests EXCEPT ![i].pc = "json", ![i].status = status]
            /\ UNCHANGED <<files, validationResults, streamingState, reading, validatePc>>
            /\ UNCHANGED execVars
            /\ UNCHANGED uploaderVars
       ELSE Catch(i, [requests[i] EXCEPT !.status = status], ServerErrorMessage(status))

\* line 82: response.json() rejects (the body is not JSON)
JsonRejects(i) ==
  /\ i \in DOMAIN requests
  /\ requests[i].pc = "json"
  /\ Catch(i, requests[i], JsonErrorMessage)

\* line 83: data?.choices?.[0]?.message?.content || "No response received."
AiResponse(content) ==
  IF content.type = "string" /\ content.value # "" THEN content.value ELSE NoResponse

\* JsonResolves with scoreMatch[1] read without the ?. guard: a response
\* with no score tag throws
JsonResolvesUnguarded(i, content) ==
  /\ i \in DOMAIN requests
  /\ requests[i].pc = "json"
  /\ IF content.type = "number"
       THEN Catch(i, [requests[i] EXCEPT !.content = content], TypeErrorMessage)
       ELSE IF scoreMatch(AiResponse(content)) = None
         THEN Catch(i, [requests[i] EXCEPT !.content = content,
                                           !.aiResponse = AiResponse(content)],
                    "Cannot read properties of null (reading '1')")
         ELSE Settle(i, [requests[i] EXCEPT !.pc = "done", !.branch = "try",
                                            !.content = content,
                                            !.aiResponse = AiResponse(content)],
                     ParseResponse(requests[i].file, AiResponse(content)))

\* lines 82-101: response.json() resolves; a content that is truthy and no
\* string has no match method (TypeError at line 85)
JsonResolves(i, content) ==
  /\ i \in DOMAIN requests
  /\ requests[i].pc = "json"
  /\ IF content.type = "number"
       THEN Catch(i, [requests[i] EXCEPT !.content = content], TypeErrorMessage)
       ELSE Settle(i, [requests[i] EXCEPT !.pc = "done", !.branch = "try",
                                          !.content = content,
                                          !.aiResponse = AiResponse(content)],
                   ParseResponse(requests[i].file, AiResponse(content)))

\* BatchComplete as a join on the first settled request would have it
BatchCompleteOnFirstSettled ==
  /\ validatePc = "await"
  /\ \E i \in DOMAIN requests : requests[i].pc = "done"
  /\ streamingState' = [isAnalyzing |-> FALSE, currentFile |-> "", currentStep |-> ""]
  /\ validatePc' = "idle"
  /\ requests' = <<>>
  /\ UNCHANGED <<files, validationResults, reading>>
  /\ UNCHANGED execVars
  /\ UNCHANGED uploaderVars

\* BatchComplete as it would be with no catch in processFile: a request
\* that failed rejects the Promise.all and line 119 is not reached
BatchCompleteUnlessFailed ==
  /\ validatePc = "await"
  /\ \A i \in DOMAIN requests : requests[i].pc = "done" /\ requests[i].branch # "catch"
  /\ streamingState' = [isAnalyzing |-> FALSE, currentFile |-> "", currentStep |-> ""]
  /\ validatePc' = "idle"
  /\ requests' = <<>>
  /\ UNCHANGED <<files, validationResults, reading>>
  /\ UNCHANGED execVars
  /\ UNCHANGED uploaderVars

\* lines 118-119: every processFile promise is fulfilled, validateCode resumes
\* and returns (its processFile calls are over)
BatchComplete ==
  /\ validatePc = "await"
  /\ \A i \in DOMAIN requests : requests[i].pc = "done"
  /\ streamingState' = [isAnalyzing |-> FALSE, currentFile |-> "", currentStep |-> ""]
  /\ validatePc' = "idle"
  /\ requests' = <<>>
  /\ UNCHANGED <<files, validationResults, reading>>
  /\ UNCHANGED execVars
  /\ UNCHANGED uploaderVars

\* ------------------------------------------------------------------------
\* App: runCode and its poll loop
\* ------------------------------------------------------------------------

MaxExecs == 2

MaxPolls == 3

\* the bodies Judge0 answers a poll with: status ids 1 (in queue) and 2
\* (processing) carry no output yet; 3 (accepted) and 11 (runtime error) do
JudgeResponses ==
  { [status |-> s, stdout |-> None, stderr |-> None] : s \in {1, 2} }
  \cup
  { [status |-> s, stdout |-> out, stderr |-> err] :
      s \in {3, 11}, out \in {None, Some(""), Some("OK")}, err \in {None, Some("boom")} }

NoData == [status |-> 0, stdout |-> None, stderr |-> None]

\* string concatenation with a value that may be null
JsString(opt) == IF opt = None THEN "null" ELSE opt[1]

\* NotTerminal with the comparison off by one
NotTerminalUpToThree(data) == data.status <= 3

\* line 138: the status ids that mean "not finished yet"
NotTerminal(data) == data.status <= 2

\* SurfaceOutput without the "Error: " prefix
SurfaceOutputUnprefixed(data) ==
  IF Truthy(data.stdout) THEN data.stdout[1] ELSE JsString(data.stderr)

\* line 141: resultResponse.data.stdout || "Error: " + resultResponse.data.stderr
SurfaceOutput(data) ==
  IF Truthy(data.stdout) THEN data.stdout[1] ELSE "Error: " \o JsString(data.stderr)

\* lines 123-131: the click on Execute Code up to the await of axios.post
RunCode ==
  /\ Len(execs) < MaxExecs
  /\ executionOutput' = "Running..."
  /\ execs' = Append(execs, [pc |-> "submit", submit |-> "pending", polls |-> 0,
                              waits |-> 0, finals |-> 0, output |-> None])
  /\ UNCHANGED delivered
  /\ UNCHANGED batchVars
  /\ UNCHANGED uploaderVars

\* lines 133-145: the submission is accepted, the first poll is scheduled
SubmitResolves(e) ==
  /\ e \in DOMAIN execs
  /\ execs[e].pc = "submit"
  /\ execs' = [execs EXCEPT ![e].pc = "timer", ![e].submit = "accepted"]
  /\ UNCHANGED <<executionOutput, delivered>>
  /\ UNCHANGED batchVars
  /\ UNCHANGED uploaderVars

\* SubmitRejects with the first poll scheduled all the same
SubmitRejectsThenPolls(e) ==
  /\ e \in DOMAIN execs
  /\ execs[e].pc = "submit"
  /\ executionOutput' = "Execution failed."
  /\ execs' = [execs EXCEPT ![e].pc = "timer", ![e].submit = "rejected",
                             ![e].output = Some("Execution failed.")]
  /\ UNCHANGED delivered
  /\ UNCHANGED batchVars
  /\ UNCHANGED uploaderVars

\* lines 146-149: axios.post rejects
SubmitRejects(e) ==
  /\ e \in DOMAIN execs
  /\ execs[e].pc = "submit"
  /\ executionOutput' = "Execution failed."
  /\ execs' = [execs EXCEPT ![e].pc = "failed", ![e].submit = "rejected",
                             ![e].output = Some("Execution failed.")]
  /\ UNCHANGED delivered
  /\ UNCHANGED batchVars
  /\ UNCHANGED uploaderVars

\* lines 135-136: the timer fires, checkResult issues the status request
TimerFires(e) ==
  /\ e \in DOMAIN execs
  /\ execs[e].pc = "timer"
  /\ execs[e].polls < MaxPolls
  /\ execs' = [execs EXCEPT ![e].pc = "poll", ![e].polls = @ + 1]
  /\ UNCHANGED <<executionOutput, delivered>>
  /\ UNCHANGED batchVars
  /\ UNCHANGED uploaderVars

\* the judge's side of a poll: one more answer "in queue" / "processing"
\* (waits) or one more answer with a final status (finals)
Answered(exec, data) ==
  IF data.status \in {1, 2}
    THEN [exec EXCEPT !.waits = @ + 1]
    ELSE [exec EXCEPT !.finals = @ + 1]

\* PollResolves with an attempt limit: the second "not finished" answer
\* ends the loop
PollResolvesWithLimit(e, data) ==
  /\ e \in DOMAIN execs
  /\ execs[e].pc = "poll"
  /\ delivered' = [exec |-> e, data |-> data]
  /\ IF NotTerminal(data) /\ execs[e].waits < 1
       THEN /\ execs' = [execs EXCEPT ![e] = [Answered(@, data) EXCEPT !.pc = "timer"]]
            /\ UNCHANGED executionOutput
       ELSE /\ execs' = [execs EXCEPT ![e] = [Answered(@, data) EXCEPT
                                                 !.pc = "done",
                                                 !.output = Some(SurfaceOutput(data))]]
            /\ executionOutput' = SurfaceOutput(data)
  /\ UNCHANGED batchVars
  /\ UNCHANGED uploaderVars

\* lines 136-142: the status request resolves
PollResolves(e, data) ==
  /\ e \in DOMAIN execs
  /\ execs[e].pc = "poll"
  /\ delivered' = [exec |-> e, data |-> data]
  /\ IF NotTerminal(data)
       THEN /\ execs' = [execs EXCEPT ![e] = [Answered(@, data) EXCEPT !.pc = "timer"]]
            /\ UNCHANGED executionOutput
       ELSE /\ execs' = [execs EXCEPT ![e] = [Answered(@, data) EXCEPT
                                                 !.pc = "done",
                                                 !.output = Some(SurfaceOutput(data))]]
            /\ executionOutput' = SurfaceOutput(data)
  /\ UNCHANGED batchVars
  /\ UNCHANGED uploaderVars

\* line 136: the status request rejects; checkResult has no catch, so its
\* promise rejects unobserved and nothing more happens for this execution
PollRejects(e) ==
  /\ e \in DOMAIN execs
  /\ execs[e].pc = "poll"
  /\ execs' = [execs EXCEPT ![e].pc = "lost"]
  /\ UNCHANGED <<executionOutput, delivered>>
  /\ UNCHANGED batchVars
  /\ UNCHANGED uploaderVars

\* ------------------------------------------------------------------------
\* FileUploader: the displayed list and what it hands to the application
\* ------------------------------------------------------------------------

MaxUploaded == 4

\* line 43: file.webkitRelativePath || file.name of a file dropped on its own
EntryPath(file) == file.name

\* lines 38-60: a drop appends the accepted files to the displayed list and
\* hands the accepted files to the application
OnDrop(acceptedFiles) ==
  /\ Len(uploadedFiles) + Len(acceptedFiles) <= MaxUploaded
  /\ uploadedFiles' = uploadedFiles \o acceptedFiles
  /\ OnFilesSelected(acceptedFiles)

\* uploadedFiles.filter((_, i) => i !== index), index counted from 1
WithoutIndex(list, index) ==
  [i \in 1..(Len(list) - 1) |-> IF i < index THEN list[i] ELSE list[i + 1]]

\* lines 62-66: the remove button of entry index
RemoveFile(index) ==
  /\ index \in DOMAIN uploadedFiles
  /\ uploadedFiles' = WithoutIndex(uploadedFiles, index)
  /\ OnFilesSelected(WithoutIndex(uploadedFiles, index))

\* lines 68-72: the Clear All button, shown while the list is not empty
ClearAllFiles ==
  /\ uploadedFiles # <<>>
  /\ uploadedFiles' = <<>>
  /\ OnFilesSelected(<<>>)

\* uploadedFiles.findIndex(file => file.path === id), counted from 1
FindIndex(list, id) ==
  Least({ i \in DOMAIN list : EntryPath(list[i]) = id })

\* arrayMove of @dnd-kit/sortable: the element at from is taken out and put
\* in at to
ArrayMove(list, from, to) ==
  LET rest == WithoutIndex(list, from)
  IN  SubSeq(rest, 1, to - 1) \o <<list[from]>> \o SubSeq(rest, to, Len(rest))

\* lines 83-93: the entry dragged (active) is let go over another (over);
\* the application is not told
HandleDragEnd(active, over) ==
  /\ active \in DOMAIN uploadedFiles /\ over \in DOMAIN uploadedFiles
  /\ LET oldIndex == FindIndex(uploadedFiles, EntryPath(uploadedFiles[active]))
         newIndex == FindIndex(uploadedFiles, EntryPath(uploadedFiles[over]))
     IN  /\ oldIndex # newIndex
         /\ uploadedFiles' = ArrayMove(uploadedFiles, oldIndex, newIndex)
  /\ UNCHANGED batchVars
  /\ UNCHANGED execVars

\* ------------------------------------------------------------------------
\* Specifications
\* ------------------------------------------------------------------------

\* lines 21-31: the initial values of the useState hooks
Init ==
  /\ files = <<>>
  /\ validationResults = <<>>
  /\ streamingState = [isAnalyzing |-> FALSE, currentFile |-> "", currentStep |-> ""]
  /\ reading = <<>>
  /\ validatePc = "idle"
  /\ requests = <<>>
  /\ executionOutput = ""
  /\ execs = <<>>
  /\ delivered = [exec |-> 0, data |-> NoData]
  /\ uploadedFiles = <<>>

\* file selection and the analysis batch
NextBatch ==
  \/ \E selectedFiles \in Selections : HandleFilesSelected(selectedFiles)
  \/ \E k \in DOMAIN reading : FilesRead(k)
  \/ ValidateCode
  \/ \E i \in DOMAIN requests : FetchRejects(i)
  \/ \E i \in DOMAIN requests, status \in HttpStatuses : FetchResolves(i, status)
  \/ \E i \in DOMAIN requests : JsonRejects(i)
  \/ \E i \in DOMAIN requests, content \in BatchContents : JsonResolves(i, content)
  \/ BatchComplete

\* code execution
NextExec ==
  \/ RunCode
  \/ \E e \in DOMAIN execs : SubmitResolves(e)
  \/ \E e \in DOMAIN execs : SubmitRejects(e)
  \/ \E e \in DOMAIN execs : TimerFires(e)
  \/ \E e \in DOMAIN execs, data \in JudgeResponses : PollResolves(e, data)
  \/ \E e \in DOMAIN execs : PollRejects(e)

\* the uploader: drops, removals and Clear All, with the reads they start
NextUpload ==
  \/ \E acceptedFiles \in Selections : OnDrop(acceptedFiles)
  \/ \E index \in DOMAIN uploadedFiles : RemoveFile(index)
  \/ ClearAllFiles
  \/ \E k \in DOMAIN reading : FilesRead(k)

\* the reordering of the displayed list by dragging
NextSort ==
  \E active \in DOMAIN uploadedFiles, over \in DOMAIN uploadedFiles :
    HandleDragEnd(active, over)

Next == NextBatch \/ NextExec \/ NextUpload \/ NextSort

Spec == Init /\ [][Next]_vars

\* the two halves of the application share no state: each is checked alone
SpecBatch == Init /\ [][NextBatch]_vars

SpecExec == Init /\ [][NextExec]_vars

SpecUpload == Init /\ [][NextUpload]_vars

\* executions against a judge that accepts every submission and answers
\* every poll "in queue" or "processing"; timers fire and requests are
\* answered
StillRunning == { data \in JudgeResponses : data.status \in {1, 2} }

NextPolling ==
  \/ RunCode
  \/ \E e \in DOMAIN execs : SubmitResolves(e)
  \/ \E e \in DOMAIN execs : TimerFires(e)
  \/ \E e \in DOMAIN execs, data \in StillRunning : PollResolves(e, data)

SpecPolling ==
  /\ Init
  /\ [][NextPolling]_vars
  /\ \A e \in 1..MaxExecs :
       /\ WF_vars(SubmitResolves(e))
       /\ WF_vars(TimerFires(e))
       /\ WF_vars(\E data \in StillRunning : PollResolves(e, data))

\* a step of the request of the i-th file of the batch
RequestStep(i) ==
  \/ FetchRejects(i)
  \/ \E status \in HttpStatuses : FetchResolves(i, status)
  \/ JsonRejects(i)
  \/ \E content \in BatchContents : JsonResolves(i, content)

\* the positions a file can have in a batch
BatchPositions == UNION { DOMAIN selectedFiles : selectedFiles \in Selections }

\* the batch when every request goes on until it has settled and the
\* continuation of the fulfilled Promise.all is run
SpecBatchLive ==
  /\ Init
  /\ [][NextBatch]_vars
  /\ \A i \in BatchPositions : WF_vars(RequestStep(i))
  /\ WF_vars(BatchComplete)

\* the batch with no file selection while validateCode is awaiting: no
\* handleFilesSelected call starts or resumes during a batch
NextQuiet ==
  \/ \E selectedFiles \in Selections :
       validatePc # "await" /\ HandleFilesSelected(selectedFiles)
  \/ \E k \in DOMAIN reading : validatePc # "await" /\ FilesRead(k)
  \/ ValidateCode
  \/ \E i \in DOMAIN requests : FetchRejects(i)
  \/ \E i \in DOMAIN requests, status \in HttpStatuses : FetchResolves(i, status)
  \/ \E i \in DOMAIN requests : JsonRejects(i)
  \/ \E i \in DOMAIN requests, content \in BatchContents : JsonResolves(i, content)
  \/ BatchComplete

SpecQuiet == Init /\ [][NextQuiet]_vars

\* a batch of the single file FileA, over every response of ParserContents
NextParse ==
  \/ files = <<>> /\ HandleFilesSelected(<<FileA>>)
  \/ FilesRead(1)
  \/ ValidateCode
  \/ FetchRejects(1)
  \/ \E status \in HttpStatuses : FetchResolves(1, status)
  \/ JsonRejects(1)
  \/ \E content \in ParserContents : JsonResolves(1, content)
  \/ BatchComplete

SpecParse == Init /\ [][NextParse]_vars

\* ------------------------------------------------------------------------
\* Properties
\* ------------------------------------------------------------------------

Last(seq) == seq[Len(seq)]

Injective(f) == \A a, b \in DOMAIN f : f[a] = f[b] => a = b

\* outcomes holds exactly one outcome for each file of the batch reqs
OneOutcomePerFile(reqs, outcomes) ==
  /\ Len(outcomes) = Len(reqs)
  /\ \E at \in [DOMAIN reqs -> DOMAIN outcomes] :
       /\ Injective(at)
       /\ \A i \in DOMAIN reqs :
            /\ outcomes[at[i]].path = reqs[i].file.path
            /\ outcomes[at[i]].fileName = reqs[i].file.name

\* C1: when validateCode completes, the results collection holds exactly one
\* outcome for each file of the batch, whatever the requests' outcomes were.
C1_OneOutcomePerInputFile ==
  [][(validatePc = "await" /\ validatePc' = "idle")
       => OneOutcomePerFile(requests, validationResults')]_vars

\* the request did not deliver a model response: it threw (network error,
\* non-2xx status, body that is no JSON, content that is no string) or its
\* body had no content
RequestFailed(r) ==
  r.pc = "done" /\ (r.branch = "catch" \/ r.content.type # "string" \/ r.content.value = "")

DescribesError(text) ==
  \/ StartsAt(text, 1, "Error: ") /\ Len(text) > Len("Error: ")
  \/ text = NoResponse

\* C2: the step in which the request of a file F fails appends exactly one
\* outcome, for F, with score 0, no corrections and a narrative describing
\* the error; it leaves the outcomes collected so far and every sibling
\* request as they are (no sibling is cancelled or altered).
C2_FailureIsIsolated ==
  [][\A i \in DOMAIN requests :
       (requests[i].pc # "done" /\ i \in DOMAIN requests' /\ RequestFailed(requests'[i]))
         => /\ Len(validationResults') = Len(validationResults) + 1
            /\ SubSeq(validationResults', 1, Len(validationResults)) = validationResults
            /\ Last(validationResults').path = requests[i].file.path
            /\ Last(validationResults').fileName = requests[i].file.name
            /\ Last(validationResults').score = 0
            /\ Last(validationResults').hasCorrections = FALSE
            /\ DescribesError(Last(validationResults').result)
            /\ DOMAIN requests' = DOMAIN requests
            /\ \A j \in DOMAIN requests : j # i => requests'[j] = requests[j]]_vars

\* a batch of two in which the first file failed and the second, settling
\* after it, was parsed as usual
C2_Witness ==
  /\ Len(requests) = 2
  /\ RequestFailed(requests[1])
  /\ requests[2].pc = "done" /\ ~RequestFailed(requests[2])
  /\ Len(validationResults) = 2
  /\ validationResults[1].score = 0
  /\ validationResults[1].path = requests[1].file.path
  /\ validationResults[2].score = 85

\* C3: isAnalyzing is true while a dispatched request has not settled; the
\* step that makes it false happens with every request settled and resets
\* currentFile and currentStep to "".
C3_AnalyzingUntilAllSettled ==
  /\ []((\E i \in DOMAIN requests : requests[i].pc # "done") => streamingState.isAnalyzing)
  /\ [][(streamingState.isAnalyzing /\ ~streamingState'.isAnalyzing)
          => /\ requests # <<>>
             /\ \A i \in DOMAIN requests : requests[i].pc = "done"
             /\ streamingState'.currentFile = ""
             /\ streamingState'.currentStep = ""]_vars

\* a batch of two has completed although its first request failed
C3_Witness ==
  /\ validatePc = "idle"
  /\ ~streamingState.isAnalyzing
  /\ streamingState.currentFile = "" /\ streamingState.currentStep = ""
  /\ Len(validationResults) = 2
  /\ StartsAt(validationResults[1].result, 1, "Error: ")
  /\ validationResults[2].score = 85

\* C4: an execution whose polls were answered k times "not finished" and
\* then once with a terminal status has issued exactly k + 1 polls; every
\* "not finished" answer schedules the next poll, the terminal answer ends
\* the execution, and nothing is polled for it afterwards.
C4_PollsUntilTerminal ==
  /\ [](\A e \in DOMAIN execs :
          /\ execs[e].finals <= 1
          /\ execs[e].polls = execs[e].waits + execs[e].finals
                                + (IF execs[e].pc \in {"poll", "lost"} THEN 1 ELSE 0)
          /\ execs[e].finals = 1
               => execs[e].pc = "done" /\ execs[e].polls = execs[e].waits + 1)
  /\ [][\A e \in DOMAIN execs :
          /\ execs'[e].waits > execs[e].waits => execs'[e].pc = "timer"
          /\ execs[e].finals = 1 => execs'[e] = execs[e]]_vars

\* status 1 or 2 twice, then a terminal status with stdout "OK": three
\* polls, and "OK" is shown
C4_Witness ==
  \E e \in DOMAIN execs :
    /\ execs[e].pc = "done"
    /\ execs[e].waits = 2 /\ execs[e].finals = 1 /\ execs[e].polls = 3
    /\ delivered = [exec |-> e, data |-> [status |-> 3, stdout |-> Some("OK"), stderr |-> None]]
    /\ executionOutput = "OK"

\* C6: a poll answer with a terminal status (id > 2) sets the output slot
\* to stdout when stdout is non-empty and to "Error: " followed by stderr
\* otherwise; a poll answer with a status id <= 2 leaves the slot as it is.
C6_TerminalOutput ==
  [][\A e \in DOMAIN execs :
       (execs[e].pc = "poll"
          /\ execs'[e].waits + execs'[e].finals > execs[e].waits + execs[e].finals)
         => LET data == delivered'.data
            IN  IF data.status > 2
                  THEN executionOutput' =
                         (IF data.stdout # None /\ data.stdout[1] # ""
                            THEN data.stdout[1]
                            ELSE "Error: " \o (IF data.stderr = None THEN "null"
                                               ELSE data.stderr[1]))
                  ELSE executionOutput' = executionOutput]_vars

\* a terminal answer with an empty stdout and stderr "boom" is shown as an
\* error string
C6_Witness ==
  /\ delivered.exec \in DOMAIN execs
  /\ execs[delivered.exec].pc = "done"
  /\ delivered.data.stdout = Some("")
  /\ delivered.data.stderr = Some("boom")
  /\ executionOutput = "Error: boom"

\* C7: a rejected submit sets the output slot to "Execution failed." at
\* once; the execution then stays as it is for ever: no second submit, and
\* no poll scheduled or issued.
C7_SubmitFailureIsFinal ==
  /\ [](\A e \in DOMAIN execs :
          execs[e].submit = "rejected" => execs[e].pc = "failed" /\ execs[e].polls = 0)
  /\ [][\A e \in DOMAIN execs :
          /\ (execs[e].submit = "pending" /\ execs'[e].submit = "rejected")
               => executionOutput' = "Execution failed."
          /\ execs[e].submit = "rejected" => execs'[e] = execs[e]]_vars

C7_Witness ==
  \E e \in DOMAIN execs :
    /\ execs[e].submit = "rejected"
    /\ execs[e].pc = "failed"
    /\ executionOutput = "Execution failed."

\* the step settles request i: its outcome is the last of validationResults'
Settles(i) ==
  /\ requests[i].pc # "done"
  /\ i \in DOMAIN requests'
  /\ requests'[i].pc = "done"

\* a tag <SCORE:digits> starts at i
TagAt(s, i) ==
  /\ StartsAt(s, i, "<SCORE:")
  /\ \E n \in 1..Len(s) :
       /\ \A k \in 1..n : IsDigit(At(s, i + 6 + k))
       /\ At(s, i + 7 + n) = ">"

TagStarts(s) == { i \in 1..Len(s) : TagAt(s, i) }

\* the number written in the first tag of s
FirstTagValue(s) ==
  LET i == CHOOSE a \in TagStarts(s) : \A b \in TagStarts(s) : a <= b
      n == CHOOSE m \in 1..Len(s) :
             (\A k \in 1..m : IsDigit(At(s, i + 6 + k))) /\ At(s, i + 7 + m) = ">"
  IN  parseInt(SubSeq(s, i + 7, i + 6 + n))

\* C5: every score in the results collection is an integer of 0..100; a
\* response whose first tag <SCORE:digits> exceeds 100 gets 100, a response
\* with no such tag gets 0, and an outcome made by the catch block has 0.
C5_ScoreInRange ==
  /\ [](\A k \in DOMAIN validationResults : validationResults[k].score \in 0..100)
  /\ [][\A i \in DOMAIN requests :
          Settles(i) =>
            LET r == requests'[i]
                score == Last(validationResults').score
            IN  /\ r.branch = "catch" => score = 0
                /\ (r.branch = "try" /\ TagStarts(r.aiResponse) = {}) => score = 0
                /\ (r.branch = "try" /\ TagStarts(r.aiResponse) # {}
                      /\ FirstTagValue(r.aiResponse) > 100) => score = 100]_vars

\* the response "<SCORE:150>" has been given the score 100
C5_Witness ==
  /\ requests # <<>>
  /\ requests[1].pc = "done"
  /\ requests[1].aiResponse = "<SCORE:150>"
  /\ validationResults # <<>>
  /\ validationResults[1].score = 100

FenceAt(s, i) == StartsAt(s, i, "^^^")

\* the opening fences: those with a later fence to close them
FenceOpens(s) ==
  { i \in 1..Len(s) : FenceAt(s, i) /\ \E j \in (i + 3)..Len(s) : FenceAt(s, j) }

HasFencedBlock(s) == FenceOpens(s) # {}

\* what stands between the first opening fence and the fence closing it
FirstBlock(s) ==
  LET open == CHOOSE i \in FenceOpens(s) : \A j \in FenceOpens(s) : i <= j
      close == CHOOSE j \in (open + 3)..Len(s) :
                 FenceAt(s, j) /\ \A k \in (open + 3)..(j - 1) : ~FenceAt(s, k)
  IN  SubSeq(s, open + 3, close - 1)

\* the length of a language tag at the head of a block, its newline
\* included: word characters directly followed by a newline
TagLength(block) ==
  LET ends == { n \in 1..Len(block) :
                  (\A k \in 1..n : IsWord(At(block, k))) /\ At(block, n + 1) = "\n" }
  IN  IF ends = {} THEN 0 ELSE (CHOOSE n \in ends : TRUE) + 1

FirstBlockInterior(s) == trim(From(FirstBlock(s), TagLength(FirstBlock(s)) + 1))

\* C8 as stated: correctedCode is the trimmed interior of the first fenced
\* block, and hasCorrections is true exactly when the response has a fenced
\* block; with no fenced block correctedCode is unset.
C8_AsStated ==
  [][\A i \in DOMAIN requests :
       (Settles(i) /\ requests'[i].branch = "try") =>
         LET s == requests'[i].aiResponse
             o == Last(validationResults')
         IN  IF HasFencedBlock(s)
               THEN o.correctedCode = Some(FirstBlockInterior(s)) /\ o.hasCorrections
               ELSE o.correctedCode = None /\ ~o.hasCorrections]_vars

\* C8, amended: correctedCode is the trimmed interior of the first fenced
\* block (a language tag of word characters directly followed by a newline
\* left out), whatever follows that block; hasCorrections is true exactly
\* when that trimmed interior is not empty; with no fenced block
\* correctedCode is unset and hasCorrections is false.
C8_FirstBlockNonEmpty ==
  [][\A i \in DOMAIN requests :
       (Settles(i) /\ requests'[i].branch = "try") =>
         LET s == requests'[i].aiResponse
             o == Last(validationResults')
         IN  IF HasFencedBlock(s)
               THEN /\ o.correctedCode = Some(FirstBlockInterior(s))
                    /\ o.hasCorrections = (FirstBlockInterior(s) # "")
               ELSE o.correctedCode = None /\ ~o.hasCorrections]_vars

\* a response whose only fenced block is empty: correctedCode is the empty
\* string and hasCorrections is false
C8_Witness ==
  /\ requests # <<>>
  /\ requests[1].pc = "done"
  /\ requests[1].aiResponse = "<SCORE:85>^^^py\n  \n^^^"
  /\ validationResults # <<>>
  /\ validationResults[1].correctedCode = Some("")
  /\ validationResults[1].hasCorrections = FALSE

\* the section a line switches the cursor to, "none" when it has no trigger
TriggeredSection(line) ==
  LET has(word) == includes(toLowerCase(line), word)
  IN  IF has("security") \/ has("vulnerability") THEN "security"
      ELSE IF has("performance") \/ has("optimization") THEN "performance"
      ELSE IF has("suggestion") \/ has("recommendation") THEN "suggestions"
      ELSE "none"

\* the section of line k: that of the latest triggering line up to k
SectionOfLine(lines, k) ==
  LET triggers == { j \in 1..k : TriggeredSection(lines[j]) # "none" }
  IN  IF triggers = {} THEN "analysis"
      ELSE TriggeredSection(lines[CHOOSE j \in triggers : \A h \in triggers : h <= j])

\* the non-blank lines among the first k whose section is the given one
RECURSIVE FiledUnder(_, _, _)
FiledUnder(lines, section, k) ==
  IF k = 0 THEN <<>>
  ELSE FiledUnder(lines, section, k - 1)
         \o (IF trim(lines[k]) # "" /\ SectionOfLine(lines, k) = section
               THEN <<trim(lines[k])>> ELSE <<>>)

StickySections(text) ==
  LET lines == split(CleanedResult(text))
  IN  \A section \in SectionNames :
        processAnalysisResult(text)[section] = FiledUnder(lines, section, Len(lines))

StickinessExample == "intro\nSecurity issue found\nstill here\nSuggest refactor"

\* C9 as stated: sticky classification, and the example ends with
\* "Suggest refactor" under suggestions.
C9_AsStated ==
  \A k \in DOMAIN validationResults :
    LET text == validationResults[k].result
    IN  /\ StickySections(text)
        /\ text = StickinessExample =>
             processAnalysisResult(text) =
               [analysis |-> <<"intro">>,
                security |-> <<"Security issue found", "still here">>,
                suggestions |-> <<"Suggest refactor">>,
                performance |-> <<>>]

\* C9, amended: the cursor starts on analysis, a line with no trigger is
\* filed under the section of the latest triggering line and a triggering
\* line under the section it switches to; the example yields analysis =
\* ["intro"], security = ["Security issue found", "still here", "Suggest
\* refactor"] and no suggestions ("Suggest refactor" holds neither
\* "suggestion" nor "recommendation").
C9_StickySections ==
  \A k \in DOMAIN validationResults :
    LET text == validationResults[k].result
    IN  /\ StickySections(text)
        /\ text = StickinessExample =>
             processAnalysisResult(text) =
               [analysis |-> <<"intro">>,
                security |-> <<"Security issue found", "still here", "Suggest refactor">>,
                suggestions |-> <<>>,
                performance |-> <<>>]

C9_Witness ==
  /\ validationResults # <<>>
  /\ validationResults[1].result = StickinessExample
  /\ processAnalysisResult(validationResults[1].result).security[3] = "Suggest refactor"

HasThinkBlock(s) ==
  \E i \in 1..Len(s) :
    StartsAt(s, i, "<think>") /\ \E j \in (i + 7)..Len(s) : StartsAt(s, j, "</think>")

\* none of the patterns the parser looks for
NoPattern(s) ==
  /\ TagStarts(s) = {}
  /\ ~HasFencedBlock(s)
  /\ ~HasThinkBlock(s)
  /\ TriggeredSection(s) = "none"

\* the first k lines, trimmed, without the blank ones
RECURSIVE NonBlankAmong(_, _)
NonBlankAmong(lines, k) ==
  IF k = 0 THEN <<>>
  ELSE NonBlankAmong(lines, k - 1)
         \o (IF trim(lines[k]) # "" THEN <<trim(lines[k])>> ELSE <<>>)

NonBlankLines(s) == NonBlankAmong(split(s), Len(split(s)))

\* C10: a body whose content is a string, whatever the string, is parsed
\* without an exception (the outcome is appended by the try block); when
\* the response holds none of the patterns the outcome has score 0 and no
\* corrections, and processAnalysisResult files every non-blank line under
\* analysis and nothing elsewhere.
C10_ParsingNeverFails ==
  [][\A i \in DOMAIN requests :
       (Settles(i) /\ requests'[i].content.type = "string") =>
         LET s == requests'[i].aiResponse
             o == Last(validationResults')
         IN  /\ requests'[i].branch = "try"
             /\ NoPattern(s) =>
                  /\ o.score = 0
                  /\ o.correctedCode = None
                  /\ ~o.hasCorrections
                  /\ processAnalysisResult(o.result) =
                       [analysis |-> NonBlankLines(s), suggestions |-> <<>>,
                        security |-> <<>>, performance |-> <<>>]]_vars

C10_Witness ==
  /\ requests # <<>>
  /\ requests[1].pc = "done"
  /\ requests[1].branch = "try"
  /\ requests[1].aiResponse = "plain text\n\n  more text "
  /\ validationResults # <<>>
  /\ validationResults[1].score = 0
  /\ processAnalysisResult(validationResults[1].result).analysis = <<"plain text", "more text">>

\* the positions of s inside a score tag <SCORE:digits>
ScoreSpans(s) ==
  { p \in 1..Len(s) :
      \E i \in TagStarts(s) :
        /\ i <= p
        /\ \A k \in (i + 7)..(p - 1) : IsDigit(At(s, k))
        /\ (p <= i + 6 \/ IsDigit(At(s, p)) \/ At(s, p) = ">") }

\* the positions of s inside a paired <think>...</think> block, the blocks
\* taken from left to right from position i on, each closed by the first
\* </think> after its <think>
RECURSIVE ThinkSpans(_, _)
ThinkSpans(s, i) ==
  LET opens == { a \in i..Len(s) :
                   /\ StartsAt(s, a, "<think>")
                   /\ \E b \in (a + 7)..Len(s) : StartsAt(s, b, "</think>") }
  IN  IF opens = {} THEN {}
      ELSE LET a == CHOOSE x \in opens : \A y \in opens : x <= y
               b == CHOOSE x \in (a + 7)..Len(s) :
                      /\ StartsAt(s, x, "</think>")
                      /\ \A y \in (a + 7)..(x - 1) : ~StartsAt(s, y, "</think>")
           IN  (a..(b + 7)) \cup ThinkSpans(s, b + 8)

\* the positions of s inside its first fenced block, fences included
FenceSpan(s) ==
  IF ~HasFencedBlock(s) THEN {}
  ELSE LET open == CHOOSE i \in FenceOpens(s) : \A j \in FenceOpens(s) : i <= j
       IN  open..(open + 5 + Len(FirstBlock(s)))

\* the characters of s at lo..hi whose positions are not in the set dropped
RECURSIVE Keep(_, _, _, _)
Keep(s, dropped, lo, hi) ==
  IF lo > hi THEN ""
  ELSE IF lo = hi THEN (IF lo \in dropped THEN "" ELSE At(s, lo))
  ELSE LET mid == (lo + hi) \div 2
       IN  Keep(s, dropped, lo, mid) \o Keep(s, dropped, mid + 1, hi)

\* the response without its score tags, its paired think blocks and its
\* first fenced block
Visible(s) ==
  trim(Keep(s, ScoreSpans(s) \cup ThinkSpans(s, 1) \cup FenceSpan(s), 1, Len(s)))

\* every line of every section
ShownLines(sections) ==
  UNION { { sections[name][k] : k \in DOMAIN sections[name] } : name \in SectionNames }

ThinkExample == "<think>internal notes</think>Visible text"

\* C11: the narrative made of a response that was read is the response
\* without its score tags, its paired <think> blocks (over several lines
\* too) and its first fenced block: the text processAnalysisResult splits
\* into lines is exactly the rest, and no line shown holds a score tag or a
\* paired think block; "<think>internal notes</think>Visible text" is shown
\* as the single line "Visible text".
C11_NarrativeIsClean ==
  [][\A i \in DOMAIN requests :
       (Settles(i) /\ requests'[i].branch = "try") =>
         LET s == requests'[i].aiResponse
             o == Last(validationResults')
             shown == processAnalysisResult(o.result)
         IN  /\ CleanedResult(o.result) = Visible(s)
             /\ \A line \in ShownLines(shown) :
                  TagStarts(line) = {} /\ ~HasThinkBlock(line)
             /\ s = ThinkExample =>
                  shown = [analysis |-> <<"Visible text">>, suggestions |-> <<>>,
                           security |-> <<>>, performance |-> <<>>]]_vars

\* C12: a validateCode call made while the file set is empty returns at once:
\* it dispatches no request, leaves BatchProgress as it is with isAnalyzing
\* false, and leaves the results collection as it is, which is empty.
C12_EmptyFileSetIsNoOp ==
  [][(validatePc # "empty" /\ validatePc' = "empty")
       => /\ Len(files) = 0
          /\ requests' = requests /\ requests' = <<>>
          /\ streamingState' = streamingState /\ ~streamingState'.isAnalyzing
          /\ validationResults' = validationResults
          /\ validationResults' = <<>>]_vars

SettledRequests == { i \in DOMAIN requests : requests[i].pc = "done" }

\* the outcome a settled request must have produced
OutcomeOf(r, o) ==
  /\ o.fileName = r.file.name /\ o.path = r.file.path /\ o.code = r.file.content
  /\ IF r.branch = "catch"
       THEN o.score = 0 /\ StartsAt(o.result, 1, "Error: ")
       ELSE o.score = ScoreOf(r.aiResponse)

\* C13: during a batch in which no file is selected, the results collection
\* is the sequence of the outcomes of the requests settled so far, in the
\* order they settled: a settling request appends its outcome at the end and
\* leaves what was there, nothing else touches the collection, and there are
\* as many outcomes as settled requests whatever the order of settlement.
C13_AppendInSettlementOrder ==
  /\ [](validatePc = "await" =>
          /\ Len(validationResults) = Cardinality(SettledRequests)
          /\ \E at \in [DOMAIN validationResults -> SettledRequests] :
               /\ Injective(at)
               /\ \A k \in DOMAIN validationResults :
                    OutcomeOf(requests[at[k]], validationResults[k]))
  /\ [][(validatePc = "await" /\ validatePc' = "await") =>
          IF \E i \in DOMAIN requests : Settles(i)
            THEN /\ Cardinality({ i \in DOMAIN requests : Settles(i) }) = 1
                 /\ validationResults' = Append(validationResults, Last(validationResults'))
                 /\ \A i \in DOMAIN requests :
                      Settles(i) => OutcomeOf(requests'[i], Last(validationResults'))
            ELSE validationResults' = validationResults]_vars

\* the second file of a batch of two settled first, by a failure, and the
\* first file after it: the outcomes stand in that order
C13_Witness ==
  /\ validatePc = "await"
  /\ Len(requests) = 2
  /\ SettledRequests = {1, 2}
  /\ requests[1].file.path # requests[2].file.path
  /\ Len(validationResults) = 2
  /\ validationResults[1].path = requests[2].file.path
  /\ StartsAt(validationResults[1].result, 1, "Error: ")
  /\ validationResults[2].path = requests[1].file.path
  /\ validationResults[2].score = 85

\* C14: every outcome of the results collection is the outcome of a file of
\* the current file set, however file selection and a batch in flight
\* interleave.
C14_OutcomesBelongToCurrentFiles ==
  \A k \in DOMAIN validationResults :
    \E i \in DOMAIN files :
      /\ files[i].path = validationResults[k].path
      /\ files[i].name = validationResults[k].fileName
      /\ files[i].content = validationResults[k].code

\* C15: once every execution has its terminal result the output slot shows
\* the result of the execution started last, and the terminal result of an
\* execution that is not the latest leaves the slot as it is.
C15_LatestExecutionWins ==
  /\ []((execs # <<>> /\ \A e \in DOMAIN execs : execs[e].pc = "done")
          => executionOutput = Last(execs).output[1])
  /\ [][\A e \in DOMAIN execs :
          (e < Len(execs) /\ execs[e].pc = "poll" /\ execs'[e].pc = "done")
            => executionOutput' = executionOutput]_vars

\* C16: a poll request that fails puts a failure text in the output slot, as
\* a failed submit does, and once no execution has a submit or poll pending
\* or a poll scheduled the slot does not show "Running...".
C16_PollFailureIsSurfaced ==
  /\ [][\A e \in DOMAIN execs :
          (execs[e].pc = "poll" /\ execs'[e].pc = "lost")
            => executionOutput' = "Execution failed."]_vars
  /\ []((execs # <<>> /\ \A e \in DOMAIN execs : execs[e].pc \in {"failed", "done", "lost"})
          => executionOutput # "Running...")

\* C17: from the dispatch of a batch to its completion the cursor shows the
\* path of the last file of the batch and the step "Analyzing code...",
\* whichever requests have settled; a settling request leaves the cursor as
\* it is.
C17_CursorIsLastDispatched ==
  /\ [](validatePc = "await" =>
          /\ requests # <<>>
          /\ streamingState = [isAnalyzing |-> TRUE,
                               currentFile |-> Last(requests).file.path,
                               currentStep |-> "Analyzing code..."])
  /\ [][\A i \in DOMAIN requests :
          Settles(i) => streamingState' = streamingState]_vars

\* a batch of a.js and b.py: a.js has settled, b.py has not, and the cursor
\* shows b.py
C17_Witness ==
  /\ validatePc = "await"
  /\ Len(requests) = 2
  /\ requests[1].file.path = "src/a.js" /\ requests[1].pc = "done"
  /\ requests[2].file.path = "b.py" /\ requests[2].pc # "done"
  /\ Len(validationResults) = 1
  /\ streamingState.currentFile = "b.py"
  /\ streamingState.currentStep = "Analyzing code..."

\* C18: with a judge that answers every poll "not finished", every answer
\* schedules one more poll and the slot stays at "Running..."; no number of
\* polls ends the loop: each execution goes on to any number of polls the
\* model allows (MaxPolls), all of them answered.
C18_PollsWithoutLimit ==
  /\ [](execs # <<>> => executionOutput = "Running...")
  /\ [][\A e \in DOMAIN execs :
          execs'[e].waits > execs[e].waits
            => execs'[e].pc = "timer" /\ executionOutput' = "Running..."]_vars
  /\ \A e \in 1..MaxExecs :
       [](e \in DOMAIN execs
            => <>(/\ e \in DOMAIN execs
                  /\ execs[e].pc = "timer"
                  /\ execs[e].polls = MaxPolls
                  /\ execs[e].waits = MaxPolls))

\* an execution whose polls, as many as the model allows, were all answered
\* "not finished": the next poll is scheduled and the slot shows "Running..."
C18_Witness ==
  /\ execs # <<>>
  /\ execs[1].pc = "timer"
  /\ execs[1].polls = MaxPolls
  /\ execs[1].waits = MaxPolls
  /\ execs[1].finals = 0
  /\ executionOutput = "Running..."

\* C19: when every request of a batch goes on to settle, the batch
\* completes: validateCode, once awaiting, returns, and isAnalyzing, once
\* true, becomes false again, whichever requests failed and however.
C19_BatchCompletes ==
  /\ (validatePc = "await") ~> (validatePc = "idle")
  /\ streamingState.isAnalyzing ~> ~streamingState.isAnalyzing

\* a batch of one has completed with the outcome of a server error
C19_Witness ==
  /\ validatePc = "idle"
  /\ ~streamingState.isAnalyzing
  /\ Len(files) = 1
  /\ Len(validationResults) = 1
  /\ validationResults[1].result = "Error: Server error: 500"

\* the step dispatches a batch: every request of the collection is new
StartsBatch ==
  /\ requests' # <<>>
  /\ requests' # requests
  /\ \A i \in DOMAIN requests' : requests'[i].pc = "fetch"

\* C20: a batch is dispatched only while isAnalyzing is false and no request
\* of an earlier batch is left, and the dispatching step sets isAnalyzing;
\* isAnalyzing is true exactly while validateCode is awaiting its requests,
\* so the requests that append to the results are those of one batch.
C20_OneBatchAtATime ==
  /\ [](streamingState.isAnalyzing <=> validatePc = "await")
  /\ [](~streamingState.isAnalyzing => requests = <<>>)
  /\ [][StartsBatch
          => /\ ~streamingState.isAnalyzing
             /\ requests = <<>>
             /\ streamingState'.isAnalyzing
             /\ validatePc' = "await"]_vars

\* a batch of two in flight, nothing settled yet: the first request has its
\* response headers, the second is still fetching
C20_Witness ==
  /\ streamingState.isAnalyzing
  /\ validatePc = "await"
  /\ Len(requests) = 2
  /\ requests[1].pc = "json"
  /\ requests[2].pc = "fetch"
  /\ validationResults = <<>>

\* the letter c in upper case
UpperOf(c) == At(Uppers, LetterIndex(Lowers, c))

\* the lower-case word occurs in the line, in any mix of cases
Mentions(line, word) ==
  \E i \in 1..Len(line) :
    \A k \in 1..Len(word) :
      At(line, i + k - 1) \in {At(word, k), UpperOf(At(word, k))}

SecurityTrigger(line) == Mentions(line, "security") \/ Mentions(line, "vulnerability")

PerformanceTrigger(line) == Mentions(line, "performance") \/ Mentions(line, "optimization")

SuggestionTrigger(line) == Mentions(line, "suggestion") \/ Mentions(line, "recommendation")

IsBlank(line) == \A i \in 1..Len(line) : IsSpace(At(line, i))

\* the sections after the first k lines
SectionsAfter(lines, k) ==
  ClassifyLines(SubSeq(lines, 1, k), 1, "analysis", EmptySections)

\* line k is appended to the given section and to no other
AppendedTo(lines, k, section) ==
  SectionsAfter(lines, k) =
    [SectionsAfter(lines, k - 1) EXCEPT ![section] = Append(@, trim(lines[k]))]

\* C21: a non-blank line with a security trigger is filed under security
\* whatever other triggers it has; one with a performance trigger and no
\* security trigger is filed under performance even with a suggestion
\* trigger; one with a suggestion trigger only is filed under suggestions;
\* the triggers match in any case; a blank line has no trigger and is
\* appended nowhere.
C21_TriggerPriority ==
  \A n \in DOMAIN validationResults :
    LET lines == split(CleanedResult(validationResults[n].result))
    IN  \A k \in DOMAIN lines :
          IF IsBlank(lines[k])
            THEN /\ ~SecurityTrigger(lines[k])
                 /\ ~PerformanceTrigger(lines[k])
                 /\ ~SuggestionTrigger(lines[k])
                 /\ SectionsAfter(lines, k) = SectionsAfter(lines, k - 1)
            ELSE /\ SecurityTrigger(lines[k]) => AppendedTo(lines, k, "security")
                 /\ (PerformanceTrigger(lines[k]) /\ ~SecurityTrigger(lines[k]))
                      => AppendedTo(lines, k, "performance")
                 /\ (SuggestionTrigger(lines[k]) /\ ~SecurityTrigger(lines[k])
                        /\ ~PerformanceTrigger(lines[k]))
                      => AppendedTo(lines, k, "suggestions")

\* "Optimization Suggestion" is under performance, "RECOMMENDATION on
\* Security" under security with the line after the blank ones, and the
\* blank lines are nowhere
C21_Witness ==
  /\ validationResults # <<>>
  /\ validationResults[1].result =
       "Optimization Suggestion\n \nRECOMMENDATION on Security\n\t\nlast line"
  /\ processAnalysisResult(validationResults[1].result) =
       [analysis |-> <<>>,
        suggestions |-> <<>>,
        security |-> <<"RECOMMENDATION on Security", "last line">>,
        performance |-> <<"Optimization Suggestion">>]

\* the list the application has been handed: that of the call still reading
\* its files, or else the file set it keeps
HandedIsDisplayed ==
  IF reading # <<>>
    THEN Last(reading) = uploadedFiles
    ELSE files = [i \in DOMAIN uploadedFiles |-> FileWithContent(uploadedFiles[i])]

\* C22: after any sequence of drops, removals and Clear All, the list handed
\* to the application through onFilesSelected holds the files of the
\* displayed list uploadedFiles, in the same order.
C22_HandedListIsDisplayedList == HandedIsDisplayed
====
